---- MODULE Spec2Model ----
(***************************************************************************)
(* Model of src/chatter.py: the chat-command handler of one game session   *)
(* (class Chatter).  Strings are TLA+ strings; a sent chat message is a    *)
(* record [room, text].  Times are integers in milliseconds.               *)
(***************************************************************************)
EXTENDS Integers, Sequences, FiniteSets, TLC

VARIABLES
    increment_ms,      \* game_info.increment_ms
    initial_time_ms,   \* game_info.initial_time_ms
    own_time,          \* lichess_game.own_time, in milliseconds
    is_our_turn,       \* lichess_game.is_our_turn
    board,             \* lichess_game.board
    last_pv,           \* lichess_game.last_pv
    last_message,      \* lichess_game.last_message
    print_eval_rooms,  \* Chatter.print_eval_rooms
    sent,              \* api.send_chat_message calls of the last operation, in order
    printed,           \* print calls of the last operation, in order
    config_messages,   \* config.messages, the templates given to the constructor
    greetings,         \* player_greeting, player_goodbye, spectator_greeting,
                       \* spectator_goodbye
    is_abortable,      \* lichess_game.is_abortable
    op,                \* the last operation handled
    rooms_before,      \* print_eval_rooms when the last operation started
    issued,            \* per room: the last handled printeval/quiet command was printeval
    pending,           \* per room: the printeval handlers suspended in the await of
                       \* their acknowledgement
    acked              \* per room: an acknowledgement was sent after the last handled
                       \* quiet of the room

vars == <<increment_ms, initial_time_ms, own_time, is_our_turn, board, last_pv,
          last_message, print_eval_rooms, sent, printed, config_messages, greetings,
          is_abortable, op, rooms_before, issued, pending, acked>>

farewell == <<config_messages, greetings, is_abortable>>

game == <<increment_ms, initial_time_ms, own_time, is_our_turn, board, last_pv,
          last_message>>

Rooms == {"player", "spectator"}

(***************************************************************************)
(* Python string operations used by the code.                              *)
(***************************************************************************)
Char(s, i) == SubSeq(s, i, i)

StartsWith(s, p) == Len(s) >= Len(p) /\ SubSeq(s, 1, Len(p)) = p

DropFirst(s, n) == SubSeq(s, n + 1, Len(s))

UpperLetters == "ABCDEFGHIJKLMNOPQRSTUVWXYZ"

LowerLetters == "abcdefghijklmnopqrstuvwxyz"

\* str.lower() of one character
LowerTable ==
    [c \in {Char(UpperLetters, i) : i \in 1..Len(UpperLetters)} |->
        Char(LowerLetters, CHOOSE i \in 1..Len(UpperLetters) : Char(UpperLetters, i) = c)]

LowerChar(c) == IF c \in DOMAIN LowerTable THEN LowerTable[c] ELSE c

RECURSIVE Lower(_)
Lower(s) == IF s = "" THEN "" ELSE LowerChar(Char(s, 1)) \o Lower(DropFirst(s, 1))

Min(S) == CHOOSE i \in S : \A j \in S : i <= j

\* the positions where old occurs in s
Occurrences(s, old) ==
    {i \in 1..(Len(s) - Len(old) + 1) : SubSeq(s, i, i + Len(old) - 1) = old}

\* str.replace(old, new): leftmost, non-overlapping occurrences
RECURSIVE Replace(_, _, _)
Replace(s, old, new) ==
    IF Occurrences(s, old) = {} THEN s
    ELSE LET i == Min(Occurrences(s, old))
         IN  SubSeq(s, 1, i - 1) \o new \o Replace(DropFirst(s, i + Len(old) - 1), old, new)

IsSpace(c) == c \in {" ", "\t", "\n", "\r"}

\* str.split(): the maximal runs of non-whitespace characters
RECURSIVE Split(_)
Split(s) ==
    LET letters == {i \in 1..Len(s) : ~IsSpace(Char(s, i))}
    IN  IF letters = {} THEN <<>>
        ELSE LET first == Min(letters)
                 spaces == {i \in first..Len(s) : IsSpace(Char(s, i))}
                 last == IF spaces = {} THEN Len(s) ELSE Min(spaces) - 1
             IN  <<SubSeq(s, first, last)>> \o Split(DropFirst(s, last))

\* ' '.join(words)
RECURSIVE Join(_)
Join(words) ==
    IF words = <<>> THEN ""
    ELSE IF Len(words) = 1 THEN words[1]
    ELSE words[1] \o " " \o Join(Tail(words))

Digits == "0123456789"

\* str(n) of a non-negative integer
RECURSIVE IntToStr(_)
IntToStr(n) ==
    IF n < 10 THEN Char(Digits, n + 1)
    ELSE IntToStr(n \div 10) \o Char(Digits, (n % 10) + 1)

(***************************************************************************)
(* The board (python-chess).  Only what _append_pv reads is kept: the side *)
(* to move (turn = TRUE is white), the fullmove number and the move stack. *)
(* A move is named by its UCI text; SanTable gives its algebraic notation. *)
(***************************************************************************)
Moves == {"e2e4", "g1f3", "e7d8q"}

SanTable(move) ==
    CASE move = "e2e4" -> "e4"
      [] move = "g1f3" -> "Nf3"
      [] move = "e7d8q" -> "exd8=Q+"

\* board.san(move)
San(b, move) == SanTable(move)

\* board.push(move): the fullmove number grows after a move of black
Push(b, move) ==
    [turn |-> ~b.turn,
     fullmove_number |-> IF b.turn THEN b.fullmove_number ELSE b.fullmove_number + 1,
     move_stack |-> Append(b.move_stack, move)]

\* board.pop(): restores the position before the last move of the stack
Pop(b) ==
    [turn |-> ~b.turn,
     fullmove_number |-> IF b.turn THEN b.fullmove_number - 1 ELSE b.fullmove_number,
     move_stack |-> SubSeq(b.move_stack, 1, Len(b.move_stack) - 1)]

\* board.copy(stack=n): the same position with the last n moves of the stack
CopyBoard(b, n) ==
    [b EXCEPT !.move_stack =
        SubSeq(b.move_stack, Len(b.move_stack) - n + 1, Len(b.move_stack))]

(***************************************************************************)
(* Chatter._append_pv                                                      *)
(***************************************************************************)
MaxPvMessageLen == 140

\* faulty variant: every move gets a move number
PvTokens_EveryMove(b, move) ==
    " " \o IntToStr(b.fullmove_number) \o "." \o " " \o San(b, move)

\* the tokens one move of the walk appends to the message
PvTokens(b, move) ==
    (IF b.turn THEN " " \o IntToStr(b.fullmove_number) \o "." ELSE "")
        \o " " \o San(b, move)

\* faulty variant: a message of exactly the maximum length is refused
PvFits_Strict(message) == ~(Len(message) >= MaxPvMessageLen)

PvFits(message) == ~(Len(message) > MaxPvMessageLen)

\* the for loop of _append_pv: initial_message grows, final_message is the
\* last message that passed the length test
RECURSIVE PvWalk(_, _, _, _)
PvWalk(b, moves, initial_message, final_message) ==
    IF moves = <<>> THEN final_message
    ELSE LET grown == initial_message \o PvTokens(b, Head(moves))
         IN  IF ~PvFits(grown) THEN final_message
             ELSE PvWalk(Push(b, Head(moves)), Tail(moves), grown, grown)

\* the position the annotation starts from
PvStartBoard(our_turn, b) ==
    IF our_turn THEN Pop(CopyBoard(b, 1)) ELSE CopyBoard(b, 0)

PvLabel(b) ==
    IF b.turn THEN "PV:" ELSE "PV: " \o IntToStr(b.fullmove_number) \o "..."

PvPrefix(initial_message) ==
    IF initial_message # "" THEN initial_message \o " " ELSE initial_message

\* faulty variant: a single move is annotated too
AppendPvOf_OneMove(pv, our_turn, b, initial_message) ==
    IF Len(pv) < 1 THEN initial_message
    ELSE LET start == PvStartBoard(our_turn, b)
             labelled == PvPrefix(initial_message) \o PvLabel(start)
         IN  PvWalk(start, Tail(pv), labelled, labelled)

AppendPvOf(pv, our_turn, b, initial_message) ==
    IF Len(pv) < 2 THEN initial_message
    ELSE LET start == PvStartBoard(our_turn, b)
             labelled == PvPrefix(initial_message) \o PvLabel(start)
         IN  PvWalk(start, Tail(pv), labelled, labelled)

append_pv(initial_message) == AppendPvOf(last_pv, is_our_turn, board, initial_message)

\* the board the for loop of _append_pv leaves behind: every move that passed
\* the length test has been pushed
RECURSIVE PvWalkBoard(_, _, _)
PvWalkBoard(b, moves, initial_message) ==
    IF moves = <<>> THEN b
    ELSE LET grown == initial_message \o PvTokens(b, Head(moves))
         IN  IF ~PvFits(grown) THEN b
             ELSE PvWalkBoard(Push(b, Head(moves)), Tail(moves), grown)

\* faulty variant: the builder works on the game's board itself
PvWorkObject_Game == "game"

\* board.copy(...) makes a new object; pop and push act on it
PvWorkObject == "work"

\* the two board objects after a call of _append_pv: the game's board and the
\* builder's working board
PvBoards(pv, our_turn, b, initial_message) ==
    IF Len(pv) < 2 THEN [object \in {"game", "work"} |-> b]
    ELSE LET start == PvStartBoard(our_turn, b)
             labelled == PvPrefix(initial_message) \o PvLabel(start)
             walked == PvWalkBoard(start, Tail(pv), labelled)
         IN  [object \in {"game", "work"} |->
                 IF object = PvWorkObject THEN walked ELSE b]

\* the game's board after the calls of _append_pv with these initial messages
RECURSIVE GameBoardAfter(_, _)
GameBoardAfter(b, calls) ==
    IF calls = <<>> THEN b
    ELSE GameBoardAfter(PvBoards(last_pv, is_our_turn, b, Head(calls))["game"],
                        Tail(calls))

(***************************************************************************)
(* Texts fixed at construction (Chatter.__init__) and the text tables.     *)
(* Hardware and configuration strings are opaque to the handler.           *)
(***************************************************************************)
username == "bot"

SystemSender == "lichess"

engine_name == "Stockfish"

cpu_message == "AMD Ryzen 7 8c/16t @ 4.20GHz"

ram_message == "31.3 GiB"

draw_message == "I will neither accept nor offer draws."

name_message == "I am CB-BB, and I use " \o engine_name \o " (BotLi v1.0)"

QuietHint == "Type !quiet to stop eval printing."

NoModules == "No modules available."

HelpPlayer ==
    "Supported commands: !cpu, !draw, !eval, !motor, !name, !printeval, !ram, !roast, !destroy, !quotes"

HelpSpectator ==
    "Supported commands: !cpu, !draw, !eval, !motor, !name, !printeval, !pv, !ram, !roast, !destroy, !quotes"

\* typographic quotes and dashes of the source are written in ASCII
Roasts ==
    {"You play like your pieces are allergic to the center.",
     "Your strategy is so deep, it hasn't surfaced yet.",
     "I've seen pawns with more ambition than your whole army.",
     "You're like a blunder wrapped in an inaccuracy.",
     "Even Stockfish ran out of evals trying to explain your moves.",
     "You treat the king like a tourist - always wandering.",
     "You play like your mouse is on strike."}

Destroys ==
    {"I'm not just winning - I'm rewriting your opening book in real time.",
     "This isn't a game anymore. It's a live demo of how to dismantle a player.",
     "You're not losing, you're being systematically erased.",
     "Your board is starting to look like a clearance sale - everything must go!",
     "If this were a movie, you'd already be rolling the credits.",
     "You brought a pawn to a queen fight.",
     "This isn't just checkmate - it's checkmate with style."}

Quotes ==
    {"'In life, as in chess, forethought wins.' - Charles Buxton",
     "'Even a poor plan is better than no plan at all.' - Mikhail Chigorin",
     "'Every master was once a beginner.'",
     "'Play the opening like a book, the middlegame like a magician, and the endgame like a machine.' - Rudolf Spielmann",
     "'The blunders are all there on the board, waiting to be made.' - Savielly Tartakower",
     "'You must take your opponent into a deep dark forest where 2+2=5, and the path leading out is only wide enough for one.' - Tal",
     "'Great moves often come from great pain.'",
     "'The beauty of a move lies not in its appearance but in the thought behind it.' - Aaron Nimzowitsch"}

Msg(room, text) == [room |-> room, text |-> text]

(***************************************************************************)
(* Chatter._send_last_message: the message it sends to a room              *)
(***************************************************************************)
\* replace('Engine', 'Evaluation') and ' '.join(split())
NormalizeEval(message) == Join(Split(Replace(message, "Engine", "Evaluation")))

\* the engine's report lines of the model: cuts of one long line
EngineLine ==
    "Engine:  +0.35   Depth: 24  Nodes: 1234567 Nps: 2145678 Time: 3.2s Hashfull: 12.3% Tbhits: 0 Seldepth: 31 Multipv: 1 Wdl: 401 512 87 Currmove: e2e4 Ponder"

RawMessage(n) == SubSeq(EngineLine, 1, n)

NoEvalYet == "No eval available yet."

MessageLens == {0, 26, 110, 116, 120, 124} \cup (126..140)

KnownMessages == {NoEvalYet} \cup {RawMessage(n) : n \in MessageLens}

\* NormalizeEval of the lines above, computed once
EvalTable == [message \in KnownMessages |-> NormalizeEval(message)]

EvalText(message) ==
    IF message \in DOMAIN EvalTable THEN EvalTable[message] ELSE NormalizeEval(message)

\* faulty variant: the PV is appended for every room
LastMessageText_AnyRoom(room) == append_pv(EvalText(last_message))

LastMessageText(room) ==
    IF room = "spectator" THEN append_pv(EvalText(last_message))
    ELSE EvalText(last_message)

send_last_message(room) == Msg(room, LastMessageText(room))

(***************************************************************************)
(* Chatter._handle_command, one operator per case of the match             *)
(***************************************************************************)
OneShotThresholdMs == 180000

\* faulty variant: the threshold itself counts as a short game
OneShotOnly_Inclusive == increment_ms = 0 /\ initial_time_ms <= OneShotThresholdMs

\* faulty variant: the threshold taken in seconds
OneShotOnly_Seconds == increment_ms = 0 /\ initial_time_ms < 180

\* broadcast mode is refused: no increment and a short initial time
OneShotOnly == increment_ms = 0 /\ initial_time_ms < OneShotThresholdMs

\* faulty variant: the reply goes to the player room
Reply_Player(room, text) ==
    /\ sent' = <<Msg("player", text)>>
    /\ UNCHANGED print_eval_rooms

Reply(room, text) ==
    /\ sent' = <<Msg(room, text)>>
    /\ UNCHANGED print_eval_rooms

cmd_eval(room) ==
    /\ sent' = <<send_last_message(room)>>
    /\ UNCHANGED print_eval_rooms

\* faulty variant: subscribes every room
cmd_printeval_AllRooms(room) ==
    IF OneShotOnly
    THEN /\ sent' = <<send_last_message(room)>>
         /\ UNCHANGED print_eval_rooms
    ELSE IF room \in print_eval_rooms
    THEN /\ sent' = <<>>
         /\ UNCHANGED print_eval_rooms
    ELSE /\ print_eval_rooms' = Rooms
         /\ sent' = <<Msg(room, QuietHint), send_last_message(room)>>

\* faulty variant: no test for a room that is already subscribed
cmd_printeval_Resend(room) ==
    IF OneShotOnly
    THEN /\ sent' = <<send_last_message(room)>>
         /\ UNCHANGED print_eval_rooms
    ELSE /\ print_eval_rooms' = print_eval_rooms \cup {room}
         /\ sent' = <<Msg(room, QuietHint), send_last_message(room)>>

cmd_printeval(room) ==
    IF OneShotOnly
    THEN /\ sent' = <<send_last_message(room)>>
         /\ UNCHANGED print_eval_rooms
    ELSE IF room \in print_eval_rooms
    THEN /\ sent' = <<>>
         /\ UNCHANGED print_eval_rooms
    ELSE /\ print_eval_rooms' = print_eval_rooms \cup {room}
         /\ sent' = <<Msg(room, QuietHint), send_last_message(room)>>

\* faulty variant: empties the registry
cmd_quiet_Clear(room) ==
    /\ print_eval_rooms' = {}
    /\ sent' = <<>>

cmd_quiet(room) ==
    /\ print_eval_rooms' = print_eval_rooms \ {room}
    /\ sent' = <<>>

PvReply == IF append_pv("") # "" THEN append_pv("") ELSE NoModules

\* faulty variant: no test for the player room
cmd_pv_AnyRoom(room) == Reply(room, PvReply)

cmd_pv(room) ==
    IF room = "player"
    THEN /\ sent' = <<>>
         /\ UNCHANGED print_eval_rooms
    ELSE Reply(room, PvReply)

\* faulty variant: one help text for both rooms
cmd_help_OneText(room) == Reply(room, HelpSpectator)

cmd_help(room) ==
    IF room = "player" THEN Reply(room, HelpPlayer) ELSE Reply(room, HelpSpectator)

cmd_random(room, table) == \E text \in table : Reply(room, text)

cmd_unmatched ==
    /\ sent' = <<>>
    /\ UNCHANGED print_eval_rooms

\* the match statement on the command keyword
dispatch(room, command) ==
    CASE command = "cpu" -> Reply(room, cpu_message)
      [] command = "draw" -> Reply(room, draw_message)
      [] command = "eval" -> cmd_eval(room)
      [] command = "motor" -> Reply(room, engine_name)
      [] command = "name" -> Reply(room, name_message)
      [] command = "printeval" -> cmd_printeval(room)
      [] command = "quiet" -> cmd_quiet(room)
      [] command = "pv" -> cmd_pv(room)
      [] command = "ram" -> Reply(room, ram_message)
      [] command = "roast" -> cmd_random(room, Roasts)
      [] command \in {"destroy", "troll"} -> cmd_random(room, Destroys)
      [] command = "quotes" -> cmd_random(room, Quotes)
      [] command \in {"help", "commands"} -> cmd_help(room)
      [] OTHER -> cmd_unmatched

ChatTexts ==
    {"!printeval", "!quiet", "!pv", "!eval", "!help", "!commands", "!cpu", "!draw",
     "!motor", "!name", "!ram", "!QUIET", "!PrintEval", "!", "!pvx", "hello"}

RandomTexts == {"!roast", "!destroy", "!troll", "!quotes"}

SystemTexts == {"!printeval", "!quiet", "Takeback sent."}

\* texts that are no command: a keyword with characters before or after it,
\* a keyword without the marker, the marker twice
MalformedTexts ==
    {"!quiet ", " !quiet", "!!quiet", "! quiet", "quiet", "!printeval now",
     "printeval", "!pv!", "!QUIETLY"}

\* faulty variant: the keyword is matched as typed
Keyword_AsTyped(text) == DropFirst(text, 1)

\* chat_message.text[1:].lower()
Keyword(text) == Lower(DropFirst(text, 1))

\* the keywords of the texts above, computed once
KeywordTable ==
    [text \in ChatTexts \cup RandomTexts \cup SystemTexts \cup MalformedTexts |->
        Keyword(text)]

CommandOf(text) ==
    IF text \in DOMAIN KeywordTable THEN KeywordTable[text] ELSE Keyword(text)

handle_command(room, text) == dispatch(room, CommandOf(text))

\* the initial messages of the calls of _append_pv a command makes
PvCalls(room, command) ==
    CASE room = "spectator" /\ command = "pv" -> <<"">>
      [] room = "spectator" /\ command = "eval" -> <<EvalText(last_message)>>
      [] room = "spectator" /\ command = "printeval"
            /\ (OneShotOnly \/ room \notin print_eval_rooms) ->
                <<EvalText(last_message)>>
      [] OTHER -> <<>>

(***************************************************************************)
(* Chatter.handle_chat_message                                             *)
(***************************************************************************)
EchoWidth == 128

RECURSIVE Spaces(_)
Spaces(n) == IF n = 0 THEN "" ELSE " " \o Spaces(n - 1)

\* the line printed for a message of another user, broken after 128 characters
EchoLine(user, room, text) ==
    LET prefix == user \o " (" \o room \o "): "
        output == prefix \o text
    IN  IF Len(output) > EchoWidth
        THEN SubSeq(output, 1, EchoWidth) \o "\n" \o Spaces(Len(prefix))
                 \o DropFirst(output, EchoWidth)
        ELSE output

\* what handle_chat_message prints
Echo(user, room, text) ==
    IF user = SystemSender
    THEN (IF room = "player" THEN <<text>> ELSE <<>>)
    ELSE IF user # username THEN <<EchoLine(user, room, text)>>
    ELSE <<>>

IsCommandText(text) == StartsWith(text, "!")

\* faulty variant: the system sender is not filtered out
Dispatched_Anyone(user, text) == IsCommandText(text)

\* faulty variant: the agent's own messages are not dispatched
Dispatched_OthersOnly(user, text) ==
    user \notin {SystemSender, username} /\ IsCommandText(text)

Dispatched(user, text) == user # SystemSender /\ IsCommandText(text)

\* the printeval/quiet commands a room has had handled
PrintevalTexts == {"!printeval", "!PrintEval", "!PRINTEVAL"}

QuietTexts == {"!quiet", "!Quiet", "!QUIET"}

IssuedAfter(user, room, text) ==
    IF user # SystemSender /\ text \in PrintevalTexts
    THEN [issued EXCEPT ![room] = TRUE]
    ELSE IF user # SystemSender /\ text \in QuietTexts
    THEN [issued EXCEPT ![room] = FALSE]
    ELSE issued

\* an acknowledgement sent now, or else a quiet handled now, changes acked
RecordAcks(user, room, text) ==
    acked' = [r \in Rooms |->
                 IF \E i \in 1..Len(sent') : sent'[i] = Msg(r, QuietHint) THEN TRUE
                 ELSE IF r = room /\ Dispatched(user, text) /\ CommandOf(text) = "quiet"
                 THEN FALSE
                 ELSE acked[r]]

handle_chat_message(user, room, text) ==
    /\ op' = [kind |-> "chat", username |-> user, room |-> room, text |-> text]
    /\ rooms_before' = print_eval_rooms
    /\ issued' = IssuedAfter(user, room, text)
    /\ printed' = Echo(user, room, text)
    /\ IF Dispatched(user, text)
       THEN handle_command(room, text)
       ELSE /\ sent' = <<>>
            /\ UNCHANGED print_eval_rooms
    /\ RecordAcks(user, room, text)
    /\ UNCHANGED pending
    /\ board' = GameBoardAfter(board, IF Dispatched(user, text)
                                      THEN PvCalls(room, CommandOf(text))
                                      ELSE <<>>)
    /\ UNCHANGED <<increment_ms, initial_time_ms, own_time, is_our_turn, last_pv,
                   last_message, farewell>>

(***************************************************************************)
(* Chatter.print_eval, the broadcast tick.  The rooms are visited in the   *)
(* iteration order of a set, which is any order.                           *)
(***************************************************************************)
LowTimeMs == 30000

\* faulty variant: the increment is not looked at
BroadcastSuppressed_AnyIncrement == own_time < LowTimeMs

BroadcastSuppressed == increment_ms = 0 /\ own_time < LowTimeMs

Orders(S) ==
    {order \in [1..Cardinality(S) -> S] :
        \A i, j \in 1..Cardinality(S) : i # j => order[i] # order[j]}

print_eval ==
    /\ op' = [kind |-> "tick", username |-> "", room |-> "", text |-> ""]
    /\ rooms_before' = print_eval_rooms
    /\ IF BroadcastSuppressed
       THEN sent' = <<>>
       ELSE \E order \in Orders(print_eval_rooms) :
                sent' = [i \in 1..Len(order) |-> send_last_message(order[i])]
    /\ printed' = <<>>
    /\ board' = GameBoardAfter(board,
                               IF ~BroadcastSuppressed /\ "spectator" \in print_eval_rooms
                               THEN <<EvalText(last_message)>>
                               ELSE <<>>)
    /\ UNCHANGED <<print_eval_rooms, issued, increment_ms, initial_time_ms, own_time,
                   is_our_turn, last_pv, last_message, farewell, pending, acked>>

(***************************************************************************)
(* Chatter._format_message, send_greetings, send_goodbyes.  An optional    *)
(* string is a sequence: <<>> is None, <<s>> is the string s.              *)
(***************************************************************************)
opponent_username == "alice"

\* defaultdict(str, {...}): a key that is not in the mapping gives ''
TemplateContext(key) ==
    CASE key = "opponent" -> opponent_username
      [] key = "me" -> username
      [] key = "engine" -> engine_name
      [] key = "cpu" -> cpu_message
      [] key = "ram" -> ram_message
      [] OTHER -> ""

\* message.format_map(mapping) for templates with named fields {key}
RECURSIVE FormatMap(_)
FormatMap(message) ==
    LET opens == Occurrences(message, "{")
    IN  IF opens = {} THEN message
        ELSE LET open == Min(opens)
                 close == Min({i \in Occurrences(message, "}") : i > open})
             IN  SubSeq(message, 1, open - 1)
                     \o TemplateContext(SubSeq(message, open + 1, close - 1))
                     \o FormatMap(DropFirst(message, close))

\* the truth value of an optional string: None and '' are false
Truthy(message) == message # <<>> /\ message[1] # ""

format_message(message) ==
    IF ~Truthy(message) THEN <<>> ELSE <<FormatMap(message[1])>>

\* the message sent to a room for a formatted template, if any
Greeting(room, message) ==
    IF Truthy(message) THEN <<Msg(room, message[1])>> ELSE <<>>

\* faulty variant: without a player greeting the spectators are not greeted
send_greetings_Nested ==
    /\ op' = [kind |-> "greetings", username |-> "", room |-> "", text |-> ""]
    /\ rooms_before' = print_eval_rooms
    /\ sent' = IF Truthy(greetings.player_greeting)
               THEN Greeting("player", greetings.player_greeting)
                        \o Greeting("spectator", greetings.spectator_greeting)
               ELSE <<>>
    /\ printed' = <<>>
    /\ UNCHANGED <<print_eval_rooms, issued, game, farewell, pending, acked>>

send_greetings ==
    /\ op' = [kind |-> "greetings", username |-> "", room |-> "", text |-> ""]
    /\ rooms_before' = print_eval_rooms
    /\ sent' = Greeting("player", greetings.player_greeting)
                   \o Greeting("spectator", greetings.spectator_greeting)
    /\ printed' = <<>>
    /\ UNCHANGED <<print_eval_rooms, issued, game, farewell, pending, acked>>

send_goodbyes ==
    /\ op' = [kind |-> "goodbyes", username |-> "", room |-> "", text |-> ""]
    /\ rooms_before' = print_eval_rooms
    /\ sent' = IF is_abortable THEN <<>>
               ELSE Greeting("player", greetings.player_goodbye)
                        \o Greeting("spectator", greetings.spectator_goodbye)
    /\ printed' = <<>>
    /\ UNCHANGED <<print_eval_rooms, issued, game, farewell, pending, acked>>

(***************************************************************************)
(* The game context (Lichess_Game, Game_Information): what the handler     *)
(* reads.  The surrounding session sets it; the handler never writes it.   *)
(***************************************************************************)
StartBoard(turn, fullmove_number) ==
    [turn |-> turn, fullmove_number |-> fullmove_number, move_stack |-> <<>>]

Context(our_turn, b, pv, message) ==
    [is_our_turn |-> our_turn, board |-> b, last_pv |-> pv, last_message |-> message]

\* the time controls: <<increment_ms, initial_time_ms>>
TimeControls ==
    {<<0, 60000>>, <<0, 179999>>, <<0, 180000>>, <<0, 300000>>, <<2000, 60000>>}

OwnTimes == {29999, 30000}

\* a game in progress: before the first evaluation, after the agent's move,
\* after the opponent's reply, with a long report line
SessionContexts ==
    {Context(TRUE, StartBoard(TRUE, 1), <<>>, NoEvalYet),
     Context(FALSE, Push(StartBoard(TRUE, 1), "e2e4"),
             <<"e2e4", "e7d8q", "g1f3">>, RawMessage(26)),
     Context(TRUE, Push(Push(StartBoard(TRUE, 1), "e2e4"), "e7d8q"),
             <<"e2e4", "e7d8q", "g1f3">>, RawMessage(26)),
     Context(FALSE, Push(StartBoard(TRUE, 1), "e2e4"),
             <<"e2e4", "e7d8q", "g1f3">>, RawMessage(120))}

InContext(c) ==
    /\ is_our_turn = c.is_our_turn
    /\ board = c.board
    /\ last_pv = c.last_pv
    /\ last_message = c.last_message

SetContext(c) ==
    /\ is_our_turn' = c.is_our_turn
    /\ board' = c.board
    /\ last_pv' = c.last_pv
    /\ last_message' = c.last_message

\* the four templates of config.messages, formatted by the constructor
InitConfig(messages) ==
    /\ config_messages = messages
    /\ greetings = [player_greeting |-> format_message(messages.greeting),
                    player_goodbye |-> format_message(messages.goodbye),
                    spectator_greeting |-> format_message(messages.greeting_spectators),
                    spectator_goodbye |-> format_message(messages.goodbye_spectators)]

\* a configuration without greetings, a game that is under way
NoMessages ==
    [greeting |-> <<>>, goodbye |-> <<>>, greeting_spectators |-> <<>>,
     goodbye_spectators |-> <<>>]

InitPlain == InitConfig(NoMessages) /\ is_abortable = FALSE

InitSession ==
    /\ print_eval_rooms = {}
    /\ sent = <<>>
    /\ printed = <<>>
    /\ op = [kind |-> "init", username |-> "", room |-> "", text |-> ""]
    /\ rooms_before = {}
    /\ issued = [room \in Rooms |-> FALSE]
    /\ pending = [room \in Rooms |-> 0]
    /\ acked = [room \in Rooms |-> FALSE]

Init ==
    /\ \E tc \in TimeControls : increment_ms = tc[1] /\ initial_time_ms = tc[2]
    /\ own_time \in OwnTimes
    /\ \E c \in SessionContexts : InContext(c)
    /\ InitSession
    /\ InitPlain

\* the game goes on: the clock runs, moves are played, the engine reports
GameUpdate ==
    /\ own_time' \in OwnTimes
    /\ \E c \in SessionContexts : SetContext(c)
    /\ op' = [kind |-> "game", username |-> "", room |-> "", text |-> ""]
    /\ sent' = <<>>
    /\ printed' = <<>>
    /\ rooms_before' = print_eval_rooms
    /\ UNCHANGED <<increment_ms, initial_time_ms, print_eval_rooms, issued, farewell,
                   pending, acked>>

\* the chat events: <<username, room, text>>
ChatEvents(texts) ==
    ({username, "alice"} \X Rooms \X texts)
        \cup ({SystemSender} \X Rooms \X SystemTexts)

ChatEvent ==
    \E e \in ChatEvents(ChatTexts) : handle_chat_message(e[1], e[2], e[3])

\* every keyword of the command table, the random replies included
CommandEvent ==
    \E e \in ChatEvents(ChatTexts \cup RandomTexts \cup MalformedTexts) :
        handle_chat_message(e[1], e[2], e[3])

Next == ChatEvent \/ print_eval \/ GameUpdate

Spec == Init /\ [][Next]_vars

\* one time control, the whole command table
InitCommands ==
    /\ increment_ms = 0
    /\ initial_time_ms \in {60000, 300000}
    /\ own_time \in OwnTimes
    /\ \E c \in SessionContexts : InContext(c)
    /\ InitSession
    /\ InitPlain

NextCommands == CommandEvent \/ print_eval \/ GameUpdate

SpecCommands == InitCommands /\ [][NextCommands]_vars

(***************************************************************************)
(* The PV builder on many inputs: every short move list, a long one, the   *)
(* report lines of every length of MessageLens, positions before and after *)
(* a change of the number of digits of the fullmove number.  Every board   *)
(* has a last move, so that the rollback of one ply has a move to take     *)
(* back.                                                                   *)
(***************************************************************************)
MaxPvLen == 3

LongPvLen == 30

RECURSIVE MoveLists(_)
MoveLists(n) ==
    IF n = 0 THEN {<<>>}
    ELSE MoveLists(n - 1) \cup
         {Append(pv, move) : pv \in {l \in MoveLists(n - 1) : Len(l) = n - 1}, move \in Moves}

MoveCycle == <<"e7d8q", "g1f3", "e2e4">>

LongPv == [i \in 1..LongPvLen |-> MoveCycle[(i % 3) + 1]]

FullMoves == {9, 99}

PvContexts ==
    {Context(our_turn, Push(StartBoard(turn, n), "e2e4"), pv, RawMessage(len)) :
        our_turn \in BOOLEAN, turn \in BOOLEAN, n \in FullMoves,
        pv \in MoveLists(MaxPvLen) \cup {LongPv}, len \in MessageLens}

InitPV ==
    /\ increment_ms = 2000
    /\ initial_time_ms = 60000
    /\ own_time = 30000
    /\ \E c \in PvContexts : InContext(c)
    /\ InitSession
    /\ InitPlain

\* the two commands that build a PV
PvEvent ==
    \E room \in Rooms, text \in {"!pv", "!eval"} :
        handle_chat_message("alice", room, text)

NextPV == PvEvent

SpecPV == InitPV /\ [][NextPV]_vars

(***************************************************************************)
(* Chat handlers that interleave: each chat event is handled by its own    *)
(* task, a task runs until it is suspended in an await of a send, and      *)
(* other tasks run before it is resumed.  A send is a request to the       *)
(* transport, made when the handler calls it.  Only the await of the       *)
(* acknowledgement (line 99) has code after it; a handler suspended in its *)
(* last send does nothing more when it is resumed.                         *)
(***************************************************************************)
MaxPending == 2

PendingCount == pending["player"] + pending["spectator"]

\* faulty variant: no test for a room that is already subscribed
printeval_until_await_NoTest(room) ==
    /\ print_eval_rooms' = print_eval_rooms \cup {room}
    /\ sent' = <<Msg(room, QuietHint)>>
    /\ pending' = [pending EXCEPT ![room] = @ + 1]

\* printeval in a game that allows subscriptions, up to its first await:
\* the membership test, the add and the call that sends the acknowledgement
printeval_until_await(room) ==
    IF room \in print_eval_rooms
    THEN /\ sent' = <<>>
         /\ UNCHANGED <<print_eval_rooms, pending>>
    ELSE /\ print_eval_rooms' = print_eval_rooms \cup {room}
         /\ sent' = <<Msg(room, QuietHint)>>
         /\ pending' = [pending EXCEPT ![room] = @ + 1]

\* a chat event arrives: its handler runs until it is suspended or returns
AsyncChat(user, room, text) ==
    IF Dispatched(user, text) /\ CommandOf(text) = "printeval" /\ ~OneShotOnly
    THEN /\ room \in print_eval_rooms \/ PendingCount < MaxPending
         /\ op' = [kind |-> "chat", username |-> user, room |-> room, text |-> text]
         /\ rooms_before' = print_eval_rooms
         /\ issued' = IssuedAfter(user, room, text)
         /\ printed' = Echo(user, room, text)
         /\ printeval_until_await(room)
         /\ RecordAcks(user, room, text)
         /\ UNCHANGED <<game, farewell>>
    ELSE handle_chat_message(user, room, text)

\* a handler suspended after its acknowledgement goes on: it sends the
\* evaluation of the moment it is resumed
AsyncResume(room) ==
    /\ pending[room] > 0
    /\ pending' = [pending EXCEPT ![room] = @ - 1]
    /\ op' = [kind |-> "resume", username |-> "", room |-> room, text |-> ""]
    /\ rooms_before' = print_eval_rooms
    /\ sent' = <<send_last_message(room)>>
    /\ printed' = <<>>
    /\ board' = GameBoardAfter(board, IF room = "spectator"
                                      THEN <<EvalText(last_message)>>
                                      ELSE <<>>)
    /\ UNCHANGED <<print_eval_rooms, issued, acked, increment_ms, initial_time_ms,
                   own_time, is_our_turn, last_pv, last_message, farewell>>

AsyncTexts == {"!printeval", "!quiet", "!eval", "!PrintEval", "hello"}

AsyncEvent ==
    \E e \in ChatEvents(AsyncTexts) : AsyncChat(e[1], e[2], e[3])

ResumeEvent == \E room \in Rooms : AsyncResume(room)

InitAsync ==
    /\ increment_ms = 0
    /\ initial_time_ms \in {60000, 300000}
    /\ own_time = 30000
    /\ \E c \in SessionContexts : InContext(c)
    /\ InitSession
    /\ InitPlain

NextAsync == AsyncEvent \/ ResumeEvent \/ GameUpdate

SpecAsync == InitAsync /\ [][NextAsync]_vars

(***************************************************************************)
(* Greetings and goodbyes under every configuration of the four templates  *)
(***************************************************************************)
Templates ==
    {<<>>, <<"">>, <<"gg">>, <<"Hi {opponent}, I am {me} running {engine}.">>,
     <<"{unknown}">>}

Configurations ==
    [greeting : Templates, goodbye : Templates, greeting_spectators : Templates,
     goodbye_spectators : Templates]

InitGreetings ==
    /\ increment_ms = 0
    /\ initial_time_ms = 300000
    /\ own_time = 30000
    /\ InContext(Context(TRUE, StartBoard(TRUE, 1), <<>>, NoEvalYet))
    /\ InitSession
    /\ \E messages \in Configurations : InitConfig(messages)
    /\ is_abortable = TRUE

\* moves are played: the game can no longer be aborted
GameStarted ==
    /\ is_abortable
    /\ is_abortable' = FALSE
    /\ op' = [kind |-> "game", username |-> "", room |-> "", text |-> ""]
    /\ sent' = <<>>
    /\ printed' = <<>>
    /\ rooms_before' = print_eval_rooms
    /\ UNCHANGED <<print_eval_rooms, issued, game, config_messages, greetings,
                   pending, acked>>

NextGreetings == send_greetings \/ send_goodbyes \/ GameStarted

SpecGreetings == InitGreetings /\ [][NextGreetings]_vars

(***************************************************************************)
(* Properties                                                              *)
(***************************************************************************)
\* the last operation was a handled command with one of these texts
Handled(texts) ==
    op.kind = "chat" /\ op.username # SystemSender /\ op.text \in texts

FastGame == increment_ms = 0 /\ initial_time_ms < 180000

\* the messages of the last operation that went to a room
SentTo(room) == {i \in 1..Len(sent) : sent[i].room = room}

\* C1: in a game without increment and with an initial time under 180,000 ms
\* a handled !printeval sends exactly one evaluation message to its room and
\* leaves the registry as it was, without the room; in any other game a
\* !printeval from a room that was not subscribed leaves the room subscribed.
C1_PrintevalGuard ==
    Handled(PrintevalTexts) =>
        IF FastGame
        THEN /\ sent = <<send_last_message(op.room)>>
             /\ print_eval_rooms = rooms_before
             /\ op.room \notin print_eval_rooms
        ELSE op.room \notin rooms_before => op.room \in print_eval_rooms

C1_Witness ==
    /\ Handled(PrintevalTexts)
    /\ increment_ms = 0 /\ initial_time_ms = 60000
    /\ Len(sent) = 1 /\ sent[1].room = op.room
    /\ op.room \notin print_eval_rooms

\* C2: the registry starts empty; a room is in it only if the last printeval
\* or quiet command handled from that room was a printeval, and a room enters
\* it only by a printeval command handled from that same room.
C2_SubscribedOnlyByPrinteval ==
    /\ op.kind = "init" => print_eval_rooms = {}
    /\ \A room \in print_eval_rooms : issued[room]
    /\ \A room \in print_eval_rooms \ rooms_before :
          Handled(PrintevalTexts) /\ op.room = room

C2_Witness ==
    /\ print_eval_rooms = {"spectator"}
    /\ Handled({"!pv", "!help"}) /\ op.room = "player"
    /\ ~issued["player"]

\* C3: a broadcast tick leaves the registry unchanged; it sends nothing when
\* the game has no increment and the own time is under 30 seconds, and
\* otherwise exactly one evaluation message to every subscribed room and
\* none to any other room.
C3_BroadcastTick ==
    op.kind = "tick" =>
        /\ print_eval_rooms = rooms_before
        /\ IF increment_ms = 0 /\ own_time < 30000
           THEN sent = <<>>
           ELSE /\ Len(sent) = Cardinality(print_eval_rooms)
                /\ \A room \in print_eval_rooms :
                      \E i \in 1..Len(sent) : sent[i] = send_last_message(room)
                /\ \A room \in Rooms \ print_eval_rooms : SentTo(room) = {}

C3_Witness ==
    /\ op.kind = "tick"
    /\ print_eval_rooms = Rooms
    /\ Len(sent) = 2 /\ sent[1].room # sent[2].room
    /\ own_time = 30000 /\ increment_ms = 0

\* C4: the string the PV builder returns, prefix and label included, has at
\* most 140 characters.
C4_PvWithinBudget ==
    (Handled({"!pv", "!eval"}) /\ op.room = "spectator") =>
        \A i \in 1..Len(sent) : Len(sent[i].text) <= 140

\* the position after the first j moves of a walk
RECURSIVE BoardAfter(_, _, _)
BoardAfter(b, moves, j) ==
    IF j = 0 THEN b ELSE Push(BoardAfter(b, moves, j - 1), moves[j])

\* the complete tokens of the first j moves of a walk
RECURSIVE TokensUpTo(_, _, _)
TokensUpTo(b, moves, j) ==
    IF j = 0 THEN ""
    ELSE TokensUpTo(b, moves, j - 1) \o PvTokens(BoardAfter(b, moves, j - 1), moves[j])

\* the number of walked moves before the first one that overflows 140
KeptMoves(labelled, b, moves) ==
    CHOOSE k \in 0..Len(moves) :
        /\ \A i \in 1..k : Len(labelled \o TokensUpTo(b, moves, i)) <= 140
        /\ k < Len(moves) => Len(labelled \o TokensUpTo(b, moves, k + 1)) > 140

Labelled(prefix) ==
    (IF prefix = "" THEN "" ELSE prefix \o " ")
        \o PvLabel(PvStartBoard(is_our_turn, board))

ExpectedPv(prefix) ==
    LET start == PvStartBoard(is_our_turn, board)
        moves == Tail(last_pv)
    IN  Labelled(prefix) \o
            TokensUpTo(start, moves, KeptMoves(Labelled(prefix), start, moves))

\* C5: with at least 2 moves the PV builder returns prefix and label followed
\* by the complete tokens of the walked moves that come before the first move
\* whose tokens take the length over 140: that move and all later ones add
\* nothing, a length of exactly 140 is kept, and without overflow every
\* walked move is present.
C5_PvTruncation ==
    (op.room = "spectator" /\ Len(last_pv) >= 2) =>
        /\ Handled({"!eval"}) => sent = <<Msg("spectator", ExpectedPv(EvalText(last_message)))>>
        /\ Handled({"!pv"}) => sent = <<Msg("spectator", ExpectedPv(""))>>

C5_Witness ==
    /\ Handled({"!eval"}) /\ op.room = "spectator"
    /\ Len(last_pv) = 3
    /\ Len(sent) = 1 /\ Len(sent[1].text) = 140
    /\ KeptMoves(Labelled(EvalText(last_message)),
                 PvStartBoard(is_our_turn, board), Tail(last_pv)) = 1

\* C6: with fewer than 2 moves the PV builder returns the prefix it was given,
\* unmodified, and the empty string for an empty prefix.
C6_ShortPvReturnsPrefix ==
    Len(last_pv) < 2 =>
        /\ append_pv(EvalText(last_message)) = EvalText(last_message)
        /\ append_pv("") = ""
        /\ (Handled({"!eval"}) /\ op.room = "spectator") =>
               sent = <<Msg("spectator", EvalText(last_message))>>

C6_Witness ==
    /\ Len(last_pv) = 1
    /\ Handled({"!eval"}) /\ op.room = "spectator"
    /\ Len(sent) = 1 /\ sent[1].text = EvalText(last_message)
    /\ sent[1].text # ""

\* C7: where broadcast mode is allowed, a handled !printeval from a subscribed
\* room sends nothing and leaves the registry unchanged; from a room that is
\* not subscribed it adds the room and sends two messages to it, first the
\* acknowledgement and then the evaluation message.
C7_PrintevalSubscribes ==
    (Handled(PrintevalTexts) /\ ~FastGame) =>
        IF op.room \in rooms_before
        THEN sent = <<>> /\ print_eval_rooms = rooms_before
        ELSE /\ print_eval_rooms = rooms_before \cup {op.room}
             /\ sent = <<Msg(op.room, "Type !quiet to stop eval printing."),
                         send_last_message(op.room)>>

C7_Witness ==
    /\ Handled(PrintevalTexts) /\ ~FastGame
    /\ op.room \in rooms_before
    /\ sent = <<>>

\* C8: a handled !pv from the player room sends nothing; from the spectator
\* room it sends one message to the spectator room, which starts with "PV:"
\* when the last evaluation line has at least 2 moves and is the fallback
\* text otherwise.  The registry is unchanged in both rooms.
C8_PvCommandByRoom ==
    Handled({"!pv"}) =>
        /\ print_eval_rooms = rooms_before
        /\ IF op.room = "player"
           THEN sent = <<>>
           ELSE /\ Len(sent) = 1
                /\ sent[1].room = "spectator"
                /\ IF Len(last_pv) >= 2
                   THEN StartsWith(sent[1].text, "PV:")
                   ELSE sent[1].text = "No modules available."

C8_Witness ==
    /\ Handled({"!pv"}) /\ op.room = "spectator"
    /\ Len(last_pv) >= 2
    /\ Len(sent) = 1 /\ StartsWith(sent[1].text, "PV:")
    /\ print_eval_rooms # {}

\* C9: a handled !quiet removes its room whatever the state and sends
\* nothing; a !printeval followed by a !quiet from the same room leaves the
\* room out, a second !printeval from the same room leaves the registry as
\* the first left it, and a second !quiet changes nothing.
C9_SubscriptionAlgebra ==
    [][/\ Handled(QuietTexts)' =>
            /\ print_eval_rooms' = print_eval_rooms \ {op'.room}
            /\ sent' = <<>>
       /\ (Handled(PrintevalTexts) /\ Handled(QuietTexts)' /\ op'.room = op.room) =>
            op.room \notin print_eval_rooms'
       /\ (Handled(PrintevalTexts) /\ Handled(PrintevalTexts)' /\ op'.room = op.room) =>
            print_eval_rooms' = print_eval_rooms
       /\ (Handled(QuietTexts) /\ Handled(QuietTexts)' /\ op'.room = op.room) =>
            print_eval_rooms' = print_eval_rooms]_vars

C9_Witness ==
    /\ Handled(QuietTexts)
    /\ rooms_before = Rooms
    /\ print_eval_rooms = Rooms \ {op.room}
    /\ sent = <<>>

\* C10: in a game without increment and with an initial time under 180,000 ms
\* the registry is empty in every state, and no broadcast tick sends a message.
C10_NoBroadcastInFastGames ==
    FastGame =>
        /\ print_eval_rooms = {}
        /\ op.kind = "tick" => sent = <<>>

C10_Witness ==
    /\ FastGame
    /\ op.kind = "tick"
    /\ own_time = 30000
    /\ issued["player"] /\ issued["spectator"]
    /\ sent = <<>>

\* C11: a chat message of the system sender is never dispatched as a command,
\* in either room and whatever its text: it sends nothing and leaves the
\* registry unchanged.
C11_SystemSenderIgnored ==
    (op.kind = "chat" /\ op.username = "lichess") =>
        /\ sent = <<>>
        /\ print_eval_rooms = rooms_before

C11_Witness ==
    /\ op.kind = "chat" /\ op.username = "lichess"
    /\ op.text = "!quiet" /\ op.room = "spectator"
    /\ "spectator" \in print_eval_rooms
    /\ sent = <<>>

\* the last chat event, had this user written it, can have the outcome it had
SameOutcomeFor(user) ==
    \E event \in {op'}, out \in {<<sent', print_eval_rooms'>>} :
        ENABLED (/\ handle_chat_message(user, event.room, event.text)
                 /\ sent' = out[1]
                 /\ print_eval_rooms' = out[2])

\* C12: for a message that passed the filter, dispatch depends on the leading
\* '!' alone and not on the author: the outcome of a chat event (messages sent,
\* registry) is an outcome of the same text in the same room written by the
\* agent itself and by another user; only a message that starts with '!'
\* sends or changes anything; and a line is printed exactly for the messages
\* the agent did not write.
C12_DispatchIgnoresAuthor ==
    [][(op'.kind = "chat" /\ op'.username # "lichess") =>
            /\ SameOutcomeFor("bot") /\ SameOutcomeFor("alice")
            /\ (sent' # <<>> \/ print_eval_rooms' # print_eval_rooms) =>
                   SubSeq(op'.text, 1, 1) = "!"
            /\ (printed' = <<>>) <=> (op'.username = "bot")]_vars

C12_Witness ==
    /\ op.kind = "chat" /\ op.username = "bot"
    /\ op.text = "!printeval"
    /\ op.room \in print_eval_rooms \ rooms_before
    /\ Len(sent) = 2
    /\ printed = <<>>

\* the keywords of the command table
CommandKeywords ==
    {"cpu", "draw", "eval", "motor", "name", "printeval", "quiet", "pv", "ram",
     "roast", "destroy", "troll", "quotes", "help", "commands"}

\* texts that match no command: no marker, the marker alone, a keyword with
\* extra characters around it
UnmatchedTexts ==
    {"hello", "quiet", "printeval", "!", "!pvx", "!pv!", "!quiet ", " !quiet",
     "!!quiet", "! quiet", "!printeval now", "!QUIETLY"}

\* C13: a chat message whose text does not start with '!', or starts with '!'
\* but is not, lower-cased after the '!', exactly a command keyword, sends
\* nothing and leaves the registry unchanged; matching ignores case, so
\* '!QUIET' unsubscribes the room silently like '!quiet' and '!PrintEval'
\* subscribes it like '!printeval'.
C13_UnmatchedAbsorbed ==
    /\ (op.kind = "chat"
          /\ \/ op.text \in UnmatchedTexts
             \/ SubSeq(op.text, 1, 1) # "!"
             \/ CommandOf(op.text) \notin CommandKeywords) =>
            /\ sent = <<>>
            /\ print_eval_rooms = rooms_before
    /\ (op.kind = "chat" /\ op.username # "lichess" /\ op.text = "!QUIET") =>
            /\ sent = <<>>
            /\ print_eval_rooms = rooms_before \ {op.room}
    /\ (op.kind = "chat" /\ op.username # "lichess" /\ op.text = "!PrintEval"
          /\ ~FastGame) =>
            /\ print_eval_rooms = rooms_before \cup {op.room}
            /\ Len(sent) = (IF op.room \in rooms_before THEN 0 ELSE 2)

C13_Witness ==
    /\ op.kind = "chat" /\ op.username = "alice"
    /\ op.text = "!quiet " /\ op.room = "spectator"
    /\ rooms_before = {"player", "spectator"}
    /\ print_eval_rooms = rooms_before
    /\ sent = <<>>

\* C14: no chat event and no broadcast tick changes the game context: the
\* board with its move stack, the last evaluation line, the principal
\* variation, the turn flag and the clocks are after it what they were before,
\* also when the PV builder rolled one ply back or stopped at the length budget.
C14_GameContextReadOnly ==
    [][op'.kind \in {"chat", "tick"} =>
            /\ board' = board
            /\ last_message' = last_message
            /\ last_pv' = last_pv
            /\ is_our_turn' = is_our_turn
            /\ <<increment_ms', initial_time_ms', own_time'>> =
                    <<increment_ms, initial_time_ms, own_time>>]_vars

\* a PV built on the agent's own turn: the builder rolled back one ply and
\* pushed a move, the game's board still has its two moves
C14_Witness ==
    /\ op.kind = "chat" /\ op.text = "!pv" /\ op.room = "spectator"
    /\ is_our_turn
    /\ board.move_stack = <<"e2e4", "e7d8q">>
    /\ Len(sent) = 1
    /\ sent[1].text = AppendPvOf(last_pv, TRUE, board, "")
    /\ PvBoards(last_pv, TRUE, board, "")["work"] # board

\* a word of a list without the comma that follows it
WithoutComma(word) ==
    IF SubSeq(word, Len(word), Len(word)) = ","
    THEN SubSeq(word, 1, Len(word) - 1)
    ELSE word

\* the commands a help text names: its words after 'Supported commands:'
ListedCommands(text) ==
    LET words == Split(text)
    IN  {WithoutComma(words[i]) : i \in 3..Len(words)}

\* the commands both help texts name
CommonHelpCommands ==
    {"!cpu", "!draw", "!eval", "!motor", "!name", "!printeval", "!ram", "!roast",
     "!destroy", "!quotes"}

\* C15: !help and !commands are answered by one message to the issuing room;
\* it names !pv (and has the substring 'pv') exactly when the room is the
\* spectator room, and apart from !pv it names the same commands in both rooms.
C15_HelpByRoom ==
    Handled({"!help", "!commands"}) =>
        /\ Len(sent) = 1
        /\ sent[1].room = op.room
        /\ SubSeq(sent[1].text, 1, 19) = "Supported commands:"
        /\ ("!pv" \in ListedCommands(sent[1].text)) <=> (op.room = "spectator")
        /\ (Occurrences(sent[1].text, "pv") # {}) <=> (op.room = "spectator")
        /\ ListedCommands(sent[1].text) \ {"!pv"} = CommonHelpCommands
        /\ print_eval_rooms = rooms_before

C15_Witness ==
    /\ Handled({"!commands"}) /\ op.room = "player"
    /\ Len(sent) = 1 /\ sent[1].room = "player"
    /\ "!printeval" \in ListedCommands(sent[1].text)
    /\ "!pv" \notin ListedCommands(sent[1].text)

\* what the templates of Templates format to
FormattedAs(template) ==
    CASE template = <<"gg">> -> "gg"
      [] template = <<"Hi {opponent}, I am {me} running {engine}.">> ->
            "Hi alice, I am bot running Stockfish."
      [] OTHER -> ""

\* the message a room gets for a template: none for a null or empty template
\* and for one that formats to nothing
ExpectedGreeting(room, template) ==
    IF template = <<>> \/ FormattedAs(template) = "" THEN <<>>
    ELSE <<[room |-> room, text |-> FormattedAs(template)]>>

\* C16: send_greetings sends the formatted greeting to the player room and
\* then the formatted spectator greeting to the spectator room, each one only
\* if its template is present and formats to a non-empty text, each one
\* whatever the other template is; send_goodbyes does the same with the goodbye
\* templates, and sends nothing while the game is abortable.
C16_GreetingsAndGoodbyes ==
    /\ op.kind = "greetings" =>
            sent = ExpectedGreeting("player", config_messages.greeting)
                       \o ExpectedGreeting("spectator", config_messages.greeting_spectators)
    /\ op.kind = "goodbyes" =>
            sent = IF is_abortable THEN <<>>
                   ELSE ExpectedGreeting("player", config_messages.goodbye)
                            \o ExpectedGreeting("spectator",
                                                config_messages.goodbye_spectators)

\* no player greeting, and the spectators are greeted
C16_Witness ==
    /\ op.kind = "greetings"
    /\ config_messages.greeting = <<>>
    /\ config_messages.greeting_spectators =
           <<"Hi {opponent}, I am {me} running {engine}.">>
    /\ sent = <<[room |-> "spectator", text |-> "Hi alice, I am bot running Stockfish."]>>

\* side to move and fullmove number before the last move of the game's board
PositionBefore(b) ==
    CHOOSE p \in [turn : BOOLEAN,
                  fullmove_number : (b.fullmove_number - 1)..b.fullmove_number] :
        /\ p.turn = ~b.turn
        /\ b.fullmove_number = p.fullmove_number + (IF p.turn THEN 0 ELSE 1)

\* the position the annotation is to start from
AnnotatedStart ==
    IF is_our_turn THEN PositionBefore(board)
    ELSE [turn |-> board.turn, fullmove_number |-> board.fullmove_number]

\* the words of the label for a start position
LabelWords(p) ==
    IF p.turn THEN <<"PV:">> ELSE <<"PV:", IntToStr(p.fullmove_number) \o "...">>

\* the words of the first m moves: white to move or not, the move number
RECURSIVE WalkWords(_, _, _, _)
WalkWords(white, n, moves, m) ==
    IF m = 0 THEN <<>>
    ELSE (IF white THEN <<IntToStr(n) \o ".">> ELSE <<>>)
             \o <<SanTable(Head(moves))>>
             \o WalkWords(~white, IF white THEN n ELSE n + 1, Tail(moves), m - 1)

\* the words of a message are these words, then the label, then the words of
\* some number of moves of the principal variation after its first
AnnotatedWith(text, words) ==
    \E m \in 0..(Len(last_pv) - 1) :
        Split(text) = words \o LabelWords(AnnotatedStart)
                          \o WalkWords(AnnotatedStart.turn,
                                       AnnotatedStart.fullmove_number,
                                       Tail(last_pv), m)

\* C17: a PV of at least 2 moves is annotated from the position before the
\* last played move on the agent's turn and from the current position
\* otherwise; the label is 'PV:' with white to move there and 'PV: N...' with
\* that position's fullmove number N otherwise; then each walked move gives one
\* notation word, in list order, with 'N.' right before every move of white
\* and before no move of black, N growing by one after each move of black.
C17_PvLabelAndNumbering ==
    (op.room = "spectator" /\ Len(last_pv) >= 2) =>
        /\ Handled({"!pv"}) =>
               Len(sent) = 1 /\ AnnotatedWith(sent[1].text, <<>>)
        /\ Handled({"!eval"}) =>
               Len(sent) = 1
                   /\ AnnotatedWith(sent[1].text, Split(EvalText(last_message)))

\* on the agent's turn with white to move at move 100: the annotation starts
\* with black's move 99 and numbers white's reply 100
C17_Witness ==
    /\ Handled({"!pv"}) /\ op.room = "spectator"
    /\ is_our_turn /\ board.turn /\ board.fullmove_number = 100
    /\ Len(sent) = 1
    /\ sent[1].text = "PV: 99... exd8=Q+ 100. Nf3"

\* the messages of the last operation that carry a PV annotation
WithPv == {i \in 1..Len(sent) : Occurrences(sent[i].text, "PV:") # {}}

\* C18: no message sent to the player room carries the 'PV:' annotation,
\* whichever commands and broadcast ticks came before; an evaluation sent to
\* the player room is the normalised report line alone, and an annotated
\* message goes to the spectator room.
C18_NoPvInPlayerRoom ==
    /\ \A i \in WithPv : sent[i].room = "spectator"
    /\ \A i \in SentTo("player") :
           (op.kind = "tick" \/ Handled({"!eval", "!printeval", "!PrintEval"})) =>
               sent[i].text \in {EvalText(last_message), QuietHint}

\* a broadcast to both rooms with a PV of three moves: the spectators get the
\* annotation, the player does not
C18_Witness ==
    /\ op.kind = "tick"
    /\ Len(last_pv) = 3
    /\ Len(sent) = 2
    /\ SentTo("player") # {}
    /\ \E i \in SentTo("spectator") : i \in WithPv
    /\ \A i \in SentTo("player") : sent[i].text = EvalText(last_message)

\* C19: a chat event sends at most two messages, each of them to the room the
\* event came from, and the other room is in the registry after the event
\* exactly if it was before.
C19_RoomScoped ==
    op.kind = "chat" =>
        /\ Len(sent) <= 2
        /\ \A i \in 1..Len(sent) : sent[i].room = op.room
        /\ \A room \in Rooms \ {op.room} :
               (room \in print_eval_rooms) <=> (room \in rooms_before)

\* the spectators subscribe while the player room is subscribed
C19_Witness ==
    /\ Handled({"!printeval"}) /\ op.room = "spectator"
    /\ rooms_before = {"player"}
    /\ print_eval_rooms = {"player", "spectator"}
    /\ Len(sent) = 2
    /\ \A i \in 1..2 : sent[i].room = "spectator"

\* the last step sent the acknowledgement to the room
AckTo(room) == \E i \in 1..Len(sent) : sent[i] = [room |-> room, text |-> QuietHint]

\* the last step handled a quiet command from the room
QuietFrom(room) ==
    /\ op.kind = "chat" /\ op.room = room /\ op.username # "lichess"
    /\ op.text \in {"!quiet", "!QUIET", "!Quiet"}

\* C20: with chat handlers interleaving at their awaits, a step sends the
\* acknowledgement to a room exactly if it takes the room from unsubscribed to
\* subscribed; no acknowledgement is sent to a room that has had one since its
\* last handled !quiet; and only a handled !quiet from the room ends that.
C20_AckOncePerSubscription ==
    [][\A room \in Rooms :
          /\ AckTo(room)' <=>
                 (room \notin print_eval_rooms /\ room \in print_eval_rooms')
          /\ AckTo(room)' => ~acked[room]
          /\ (acked[room] /\ ~acked'[room]) => QuietFrom(room)'
          /\ (room \in print_eval_rooms /\ room \notin print_eval_rooms') =>
                 QuietFrom(room)']_vars

\* a second acknowledgement to the spectators while the handler that sent the
\* first one is still suspended: a !quiet came between them
C20_Witness ==
    /\ op.kind = "chat" /\ op.room = "spectator" /\ op.text = "!printeval"
    /\ AckTo("spectator")
    /\ pending["spectator"] = 2
    /\ "spectator" \in print_eval_rooms \ rooms_before

====
